---- MODULE Spec2Model ----
(***************************************************************************)
(* UserSettingsParser (src/UserSettingsParser.hpp): a singleton key=value  *)
(* settings store, modelled with its mutex, its backing files and the      *)
(* threads that call its public operations.                                *)
(*                                                                         *)
(* Strings are sequences of one-character strings; the newline character   *)
(* is the element NL and the separator is EQ.                              *)
(***************************************************************************)
EXTENDS Integers, Sequences, FiniteSets, TLC

\* ---------------------------------------------------------------- bounds
\* Total number of public operations invoked in one behaviour.
MaxOps == 3

Threads == {"t1", "t2"}
NoThread == "none"

\* ---------------------------------------------------------------- text
EQ == "="
NL == "NL"

\* "p" and "q" are ordinary paths; "bad" lies in a directory that does not
\* exist, so it never exists and can be opened neither for reading nor for
\* writing.
Paths == {"p", "q", "bad"}
Openable(filename) == filename # "bad"

\* Arguments the callers pass to setValue / getValue.
Keys == {<<"a">>, <<"b">>}
Values == {<<"1">>, <<>>, <<"2", EQ, "3">>}

\* ---------------------------------------------------------------- typed values
\* int is 32 bits wide.
MaxInt == 2147483647
MinInt == (-MaxInt) - 1

DigitChars == <<"0", "1", "2", "3", "4", "5", "6", "7", "8", "9">>
IsDigit(c) == \E i \in 1..10 : DigitChars[i] = c
DigitValue(c) == (CHOOSE i \in 1..10 : DigitChars[i] = c) - 1
\* std::isspace in the "C" locale (of its characters the model has ' '
\* and the newline).
IsSpace(c) == c \in {" ", NL}

\* The decimal digits of |n|, for n <= 0 (the magnitude of INT_MIN is no
\* int, so the digits are taken from the negative number).
RECURSIVE DigitsOf(_)
DigitsOf(n) ==
    LET d == (10 - (n % 10)) % 10
        q == (n + d) \div 10
    IN  (IF q = 0 THEN <<>> ELSE DigitsOf(q)) \o <<DigitChars[d + 1]>>

\* std::to_string(int): the text printf("%d") gives.
IntToString(n) == IF n < 0 THEN <<"-">> \o DigitsOf(n) ELSE DigitsOf(-n)

\* setValueAs<bool>: value ? "true" : "false"
BoolText(b) ==
    IF b THEN <<"t", "r", "u", "e">> ELSE <<"f", "a", "l", "s", "e">>

\* The first position of s at or after i that holds no white space.
RECURSIVE SkipSpaces(_, _)
SkipSpaces(s, i) ==
    IF i <= Len(s) /\ IsSpace(s[i]) THEN SkipSpaces(s, i + 1) ELSE i

\* strtol's digit loop from position i: the digits are accumulated as a
\* negative number; inrange is FALSE once the number has left the range
\* of int (stoi rejects what strtol reports as ERANGE and what does not
\* fit an int alike).
RECURSIVE AccDigits(_, _, _, _)
AccDigits(s, i, acc, inrange) ==
    IF i > Len(s) \/ ~IsDigit(s[i])
    THEN [end |-> i, v |-> acc, inrange |-> inrange]
    ELSE LET d == DigitValue(s[i])
             fits == inrange /\ acc >= (MinInt + d + 9) \div 10
         IN  AccDigits(s, i + 1, IF fits THEN (acc * 10) - d ELSE acc, fits)

\* Mutant of Stoi: the magnitude is converted as a positive int and negated
\* afterwards, so the magnitude of INT_MIN is out of range.
StoiMagnitude(s) ==
    LET i == SkipSpaces(s, 1)
        signed == i <= Len(s) /\ s[i] \in {"-", "+"}
        neg == i <= Len(s) /\ s[i] = "-"
        j == IF signed THEN i + 1 ELSE i
        r == AccDigits(s, j, 0, TRUE)
    IN  IF r.end = j THEN [kind |-> "ConversionError", value |-> <<>>]
        ELSE IF ~r.inrange \/ r.v = MinInt
             THEN [kind |-> "ConversionError", value |-> <<>>]
             ELSE [kind |-> "ok", value |-> IF neg THEN r.v ELSE -r.v]

\* std::stoi(str): white space is skipped, then an optional sign and the
\* longest run of digits are converted; what follows the digits is
\* ignored.  std::invalid_argument when there is no digit,
\* std::out_of_range when the number is no int.
Stoi(s) ==
    LET i == SkipSpaces(s, 1)
        signed == i <= Len(s) /\ s[i] \in {"-", "+"}
        neg == i <= Len(s) /\ s[i] = "-"
        j == IF signed THEN i + 1 ELSE i
        r == AccDigits(s, j, 0, TRUE)
    IN  IF r.end = j THEN [kind |-> "ConversionError", value |-> <<>>]
        ELSE IF ~r.inrange \/ (~neg /\ r.v = MinInt)
             THEN [kind |-> "ConversionError", value |-> <<>>]
             ELSE [kind |-> "ok", value |-> IF neg THEN r.v ELSE -r.v]

\* Mutant of BoolOf: every text but "false", "0" and "" counts as true.
BoolOfNonFalse(s) == s \notin {<<"f", "a", "l", "s", "e">>, <<"0">>, <<>>}

\* getValueAs<bool>: value == "true" || value == "1"
BoolOf(s) == s = <<"t", "r", "u", "e">> \/ s = <<"1">>

\* Arguments the callers pass to setValueAs<int> and setValueAs<bool>.
IntInputs == {0, 7, -5, 120, MaxInt, MinInt}
BoolInputs == {TRUE, FALSE}

\* Texts the callers store with setValue before a typed read:
\*   "12a", " 12", "+5", "2147483648", "yes", "true", "1", "0", "false", ""
Texts ==
    { <<"1", "2", "a">>, <<" ", "1", "2">>, <<"+", "5">>,
      <<"2", "1", "4", "7", "4", "8", "3", "6", "4", "8">>,
      <<"y", "e", "s">>, <<"t", "r", "u", "e">>, <<"1">>, <<"0">>,
      <<"f", "a", "l", "s", "e">>, <<>> }

\* Contents the file "p" may have when the program starts.
\*   "a=1\nx\nb=2=3\n\na=2\na="  and  "a=1\n"
InitContents ==
    { <<"a", EQ, "1", NL, "x", NL, "b", EQ, "2", EQ, "3", NL, NL,
        "a", EQ, "2", NL, "a", EQ>>,
      <<"a", EQ, "1", NL>> }

NoFile == [exists |-> FALSE, data |-> <<>>]
File(data) == [exists |-> TRUE, data |-> data]

\* std::unordered_map<std::string, std::string>: a function on its key set.
EmptyMap == [k \in {} |-> <<>>]
\* settings_[key] = value
Put(m, key, value) ==
    [k \in (DOMAIN m) \cup {key} |-> IF k = key THEN value ELSE m[k]]

\* ---------------------------------------------------------------- parsing
\* Index of the first occurrence of c in s, 0 when there is none.
RECURSIVE FirstIndex(_, _, _)
FirstIndex(s, c, i) ==
    IF i > Len(s) THEN 0
    ELSE IF s[i] = c THEN i
    ELSE FirstIndex(s, c, i + 1)

\* Mutant of FileLines: the newline that ends a line is kept in the line,
\* as fgets would.
RECURSIVE FileLinesKeepNewline(_)
FileLinesKeepNewline(data) ==
    IF data = <<>> THEN <<>>
    ELSE LET n == FirstIndex(data, NL, 1)
         IN  IF n = 0 THEN <<data>>
             ELSE <<SubSeq(data, 1, n)>>
                  \o FileLinesKeepNewline(SubSeq(data, n + 1, Len(data)))

\* while (std::getline(file, line)): the lines of a file.  A line ends at a
\* newline, which is dropped; text after the last newline is a line when it
\* is not empty.
RECURSIVE FileLines(_)
FileLines(data) ==
    IF data = <<>> THEN <<>>
    ELSE LET n == FirstIndex(data, NL, 1)
         IN  IF n = 0 THEN <<data>>
             ELSE <<SubSeq(data, 1, n - 1)>>
                  \o FileLines(SubSeq(data, n + 1, Len(data)))

\* Index of the last occurrence of c in s, 0 when there is none.
RECURSIVE LastIndex(_, _, _)
LastIndex(s, c, i) ==
    IF i < 1 THEN 0
    ELSE IF s[i] = c THEN i
    ELSE LastIndex(s, c, i - 1)

\* Mutant of ParseLine: the line is split at its last '=', not its first.
ParseLineLastEq(line) ==
    LET n == LastIndex(line, EQ, Len(line))
    IN  IF line = <<>> \/ n = 0 \/ n = Len(line)
        THEN [ok |-> FALSE, key |-> <<>>, value |-> <<>>]
        ELSE [ok |-> TRUE,
              key |-> SubSeq(line, 1, n - 1),
              value |-> SubSeq(line, n + 1, Len(line))]

\* Mutant of ParseLine: a line that ends with its first '=' is taken as a
\* key with an empty value.
ParseLineAllowsEmptyValue(line) ==
    LET n == FirstIndex(line, EQ, 1)
    IN  IF line = <<>> \/ n = 0
        THEN [ok |-> FALSE, key |-> <<>>, value |-> <<>>]
        ELSE [ok |-> TRUE,
              key |-> SubSeq(line, 1, n - 1),
              value |-> SubSeq(line, n + 1, Len(line))]

\* std::getline(iss, key, '=') && std::getline(iss, value) on one line.
\* The first getline fails on an empty line; on a line without '=' it takes
\* the whole line and leaves the stream at end-of-file, so the second fails;
\* the second also fails when nothing follows the first '='.
ParseLine(line) ==
    LET n == FirstIndex(line, EQ, 1)
    IN  IF line = <<>> \/ n = 0 \/ n = Len(line)
        THEN [ok |-> FALSE, key |-> <<>>, value |-> <<>>]
        ELSE [ok |-> TRUE,
              key |-> SubSeq(line, 1, n - 1),
              value |-> SubSeq(line, n + 1, Len(line))]

\* One iteration of the loop body of loadSettings.
ApplyLine(m, line) ==
    LET r == ParseLine(line)
    IN  IF r.ok THEN Put(m, r.key, r.value) ELSE m

\* ---------------------------------------------------------------- writing
\* The orders in which the unordered_map can be iterated.
Orders(m) ==
    { o \in [1..Cardinality(DOMAIN m) -> DOMAIN m] :
        \A i, j \in DOMAIN o : i # j => o[i] # o[j] }

\* file << setting.first << "=" << setting.second << "\n", in order o.
RECURSIVE WriteEntries(_, _, _)
WriteEntries(m, o, i) ==
    IF i > Len(o) THEN <<>>
    ELSE o[i] \o <<EQ>> \o m[o[i]] \o <<NL>> \o WriteEntries(m, o, i + 1)

Serializations(m) == { WriteEntries(m, o, 1) : o \in Orders(m) }

\* ---------------------------------------------------------------- state
VARIABLES
    settings_,         \* the in-memory mapping
    currentFilename_,  \* "" until a load has succeeded
    mutex_,            \* the thread that owns mutex_, or NoThread
    fs,                \* the file system: path -> file
    pc,                \* where each thread is in the operation it runs
    arg,               \* the operation each thread runs, with its arguments
    pre,               \* load: the mapping when the lock was taken
    content,           \* load: the file content that was read
    lines,             \* load: the lines still to be processed
    ret,               \* the outcome of the thread's last operation
    nops,              \* operations invoked so far
    lastLoaded,        \* history: filename of the last loadSettings that succeeded
    lastPath           \* history: filename of the last loadSettings or
                       \* saveSettingsAs that succeeded

vars == <<settings_, currentFilename_, mutex_, fs, pc, arg, pre, content,
          lines, ret, nops, lastLoaded, lastPath>>

\* typed: the int or bool given to setValueAs (<<>> for the other calls).
NoArg ==
    [op |-> "none", filename |-> "", key |-> <<>>, value |-> <<>>,
     typed |-> <<>>]
NoRet == [kind |-> "none", value |-> <<>>]
Ok(v) == [kind |-> "ok", value |-> v]
Raise(kind) == [kind |-> kind, value |-> <<>>]

Init ==
    /\ settings_ = EmptyMap
    /\ currentFilename_ = ""
    /\ mutex_ = NoThread
    /\ \E c \in InitContents :
         fs = [f \in Paths |-> IF f = "p" THEN File(c) ELSE NoFile]
    /\ pc = [t \in Threads |-> "idle"]
    /\ arg = [t \in Threads |-> NoArg]
    /\ pre = [t \in Threads |-> EmptyMap]
    /\ content = [t \in Threads |-> <<>>]
    /\ lines = [t \in Threads |-> <<>>]
    /\ ret = [t \in Threads |-> NoRet]
    /\ nops = 0
    /\ lastLoaded = ""
    /\ lastPath = ""

\* ---------------------------------------------------------------- calls
\* A thread invokes a public operation.
Invoke(t, a, first) ==
    /\ pc[t] = "idle"
    /\ nops < MaxOps
    /\ nops' = nops + 1
    /\ pc' = [pc EXCEPT ![t] = first]
    /\ arg' = [arg EXCEPT ![t] = a]
    /\ ret' = [ret EXCEPT ![t] = NoRet]
    /\ pre' = [pre EXCEPT ![t] = EmptyMap]
    /\ content' = [content EXCEPT ![t] = <<>>]
    /\ lines' = [lines EXCEPT ![t] = <<>>]
    /\ UNCHANGED <<settings_, currentFilename_, mutex_, fs, lastLoaded,
                   lastPath>>

CallCreateFileIfNotExists(t) ==
    \E f \in Paths :
        Invoke(t, [NoArg EXCEPT !.op = "createFileIfNotExists", !.filename = f],
               "cf_exists")

CallLoadSettings(t) ==
    \E f \in Paths :
        Invoke(t, [NoArg EXCEPT !.op = "loadSettings", !.filename = f], "ld_lock")

CallGetValue(t) ==
    \E k \in Keys :
        Invoke(t, [NoArg EXCEPT !.op = "getValue", !.key = k], "gv_lock")

CallSetValue(t) ==
    \E k \in Keys, v \in Values :
        Invoke(t, [NoArg EXCEPT !.op = "setValue", !.key = k, !.value = v],
               "sv_lock")

CallSaveSettings(t) ==
    Invoke(t, [NoArg EXCEPT !.op = "saveSettings"], "ss_lock")

CallSaveSettingsAs(t) ==
    \E f \in Paths :
        Invoke(t, [NoArg EXCEPT !.op = "saveSettingsAs", !.filename = f],
               "sa_lock")

\* The operation of thread t ends with outcome r.
Return(t, r) ==
    /\ pc' = [pc EXCEPT ![t] = "idle"]
    /\ ret' = [ret EXCEPT ![t] = r]

\* ---------------------------------------------------------------- mutex
AfterLock ==
    [ld_lock |-> "ld_open", gv_lock |-> "gv_find", sv_lock |-> "sv_put",
     ss_lock |-> "ss_check", sa_lock |-> "sa_open"]

\* Mutant of LockGuard: the guard does not wait for the mutex to be free.
LockGuardNoWait(t) ==
    /\ pc[t] \in DOMAIN AfterLock
    /\ mutex_ # t
    /\ mutex_' = t
    /\ pc' = [pc EXCEPT ![t] = AfterLock[pc[t]]]
    /\ pre' = [pre EXCEPT ![t] = settings_]
    /\ UNCHANGED <<settings_, currentFilename_, fs, arg, content, lines, ret,
                   nops, lastLoaded, lastPath>>

\* std::lock_guard<std::mutex> lock(mutex_): blocks until the mutex is free.
LockGuard(t) ==
    /\ pc[t] \in DOMAIN AfterLock
    /\ mutex_ = NoThread
    /\ mutex_' = t
    /\ pc' = [pc EXCEPT ![t] = AfterLock[pc[t]]]
    /\ pre' = [pre EXCEPT ![t] = settings_]
    /\ UNCHANGED <<settings_, currentFilename_, fs, arg, content, lines, ret,
                   nops, lastLoaded, lastPath>>

\* ---------------------------------------------------------------- createFileIfNotExists
\* if (!std::filesystem::exists(filename)), without the mutex.
CreateFileExists(t) ==
    /\ pc[t] = "cf_exists"
    /\ IF fs[arg[t].filename].exists
       THEN Return(t, Ok(<<>>))
       ELSE /\ pc' = [pc EXCEPT ![t] = "cf_create"]
            /\ UNCHANGED ret
    /\ UNCHANGED <<settings_, currentFilename_, mutex_, fs, arg, pre, content,
                   lines, nops, lastLoaded, lastPath>>

\* std::ofstream outfile(filename): creates the file, or truncates the one
\* that has appeared since the test.
CreateFileOpen(t) ==
    /\ pc[t] = "cf_create"
    /\ IF Openable(arg[t].filename)
       THEN /\ fs' = [fs EXCEPT ![arg[t].filename] = File(<<>>)]
            /\ Return(t, Ok(<<>>))
       ELSE /\ Return(t, Raise("IOError"))
            /\ UNCHANGED fs
    /\ UNCHANGED <<settings_, currentFilename_, mutex_, arg, pre, content,
                   lines, nops, lastLoaded, lastPath>>

\* ---------------------------------------------------------------- loadSettings
\* Mutant of LoadOpen: the filename is recorded before the file is known
\* to be open.
LoadOpenRecordsFirst(t) ==
    /\ pc[t] = "ld_open"
    /\ currentFilename_' = arg[t].filename
    /\ IF fs[arg[t].filename].exists
       THEN /\ pc' = [pc EXCEPT ![t] = "ld_read"]
            /\ UNCHANGED <<ret, mutex_>>
       ELSE /\ Return(t, Raise("IOError"))
            /\ mutex_' = NoThread
    /\ UNCHANGED <<settings_, fs, arg, pre, content, lines, nops, lastLoaded,
                   lastPath>>

\* std::ifstream file(filename); if (!file.is_open()) throw
LoadOpen(t) ==
    /\ pc[t] = "ld_open"
    /\ IF fs[arg[t].filename].exists
       THEN /\ pc' = [pc EXCEPT ![t] = "ld_read"]
            /\ UNCHANGED <<ret, mutex_>>
       ELSE /\ Return(t, Raise("IOError"))
            /\ mutex_' = NoThread
    /\ UNCHANGED <<settings_, currentFilename_, fs, arg, pre, content, lines,
                   nops, lastLoaded, lastPath>>

\* The first std::getline fills the stream buffer with the file's content.
LoadRead(t) ==
    /\ pc[t] = "ld_read"
    /\ content' = [content EXCEPT ![t] = fs[arg[t].filename].data]
    /\ lines' = [lines EXCEPT ![t] = FileLines(fs[arg[t].filename].data)]
    /\ pc' = [pc EXCEPT ![t] = "ld_loop"]
    /\ UNCHANGED <<settings_, currentFilename_, mutex_, fs, arg, pre, ret,
                   nops, lastLoaded, lastPath>>

\* One iteration of while (std::getline(file, line)).
LoadLine(t) ==
    /\ pc[t] = "ld_loop"
    /\ lines[t] # <<>>
    /\ settings_' = ApplyLine(settings_, Head(lines[t]))
    /\ lines' = [lines EXCEPT ![t] = Tail(lines[t])]
    /\ UNCHANGED <<currentFilename_, mutex_, fs, pc, arg, pre, content, ret,
                   nops, lastLoaded, lastPath>>

\* file.close(); currentFilename_ = filename; and the lock_guard is released.
LoadDone(t) ==
    /\ pc[t] = "ld_loop"
    /\ lines[t] = <<>>
    /\ currentFilename_' = arg[t].filename
    /\ mutex_' = NoThread
    /\ Return(t, Ok(<<>>))
    /\ lastLoaded' = arg[t].filename
    /\ lastPath' = arg[t].filename
    /\ UNCHANGED <<settings_, fs, arg, pre, content, lines, nops>>

\* ---------------------------------------------------------------- getValue
\* The string getValue has returned to getValueAs, not yet converted.
Fetched(v) == [kind |-> "string", value |-> v]

\* Mutant of GetValue: settings_[key] in place of find(), which adds a key
\* that is absent with an empty value.
GetValueCreates(t) ==
    /\ pc[t] = "gv_find"
    /\ settings_' = IF arg[t].key \in DOMAIN settings_
                    THEN settings_
                    ELSE Put(settings_, arg[t].key, <<>>)
    /\ IF arg[t].op = "getValue"
       THEN Return(t, Ok(settings_'[arg[t].key]))
       ELSE /\ pc' = [pc EXCEPT ![t] = "ga_convert"]
            /\ ret' = [ret EXCEPT ![t] = Fetched(settings_'[arg[t].key])]
    /\ mutex_' = NoThread
    /\ UNCHANGED <<currentFilename_, fs, arg, pre, content, lines, nops,
                   lastLoaded, lastPath>>

\* find(key): the value, or the exception; the lock_guard ends.  Called by
\* getValueAs, getValue hands the string to the conversion.
GetValue(t) ==
    /\ pc[t] = "gv_find"
    /\ IF arg[t].key \in DOMAIN settings_
       THEN IF arg[t].op = "getValue"
            THEN Return(t, Ok(settings_[arg[t].key]))
            ELSE /\ pc' = [pc EXCEPT ![t] = "ga_convert"]
                 /\ ret' = [ret EXCEPT ![t] = Fetched(settings_[arg[t].key])]
       ELSE Return(t, Raise("NotFoundError"))
    /\ mutex_' = NoThread
    /\ UNCHANGED <<settings_, currentFilename_, fs, arg, pre, content, lines,
                   nops, lastLoaded, lastPath>>

\* ---------------------------------------------------------------- getValueAs, setValueAs
CallGetValueAsInt(t) ==
    \E k \in Keys :
        Invoke(t, [NoArg EXCEPT !.op = "getValueAs<int>", !.key = k], "gv_lock")

CallGetValueAsBool(t) ==
    \E k \in Keys :
        Invoke(t, [NoArg EXCEPT !.op = "getValueAs<bool>", !.key = k], "gv_lock")

\* setValue(key, std::to_string(value))
CallSetValueAsInt(t) ==
    \E k \in Keys, n \in IntInputs :
        Invoke(t, [NoArg EXCEPT !.op = "setValueAs<int>", !.key = k,
                                !.typed = n, !.value = IntToString(n)],
               "sv_lock")

\* setValue(key, value ? "true" : "false")
CallSetValueAsBool(t) ==
    \E k \in Keys, b \in BoolInputs :
        Invoke(t, [NoArg EXCEPT !.op = "setValueAs<bool>", !.key = k,
                                !.typed = b, !.value = BoolText(b)],
               "sv_lock")

\* setValue with a text that a typed read will convert.
CallSetValueText(t) ==
    \E k \in Keys, v \in Texts :
        Invoke(t, [NoArg EXCEPT !.op = "setValue", !.key = k, !.value = v],
               "sv_lock")

\* return std::stoi(getValue(key))
ConvertInt(t) ==
    /\ pc[t] = "ga_convert"
    /\ arg[t].op = "getValueAs<int>"
    /\ Return(t, Stoi(ret[t].value))
    /\ UNCHANGED <<settings_, currentFilename_, mutex_, fs, arg, pre, content,
                   lines, nops, lastLoaded, lastPath>>

\* return value == "true" || value == "1"
ConvertBool(t) ==
    /\ pc[t] = "ga_convert"
    /\ arg[t].op = "getValueAs<bool>"
    /\ Return(t, Ok(BoolOf(ret[t].value)))
    /\ UNCHANGED <<settings_, currentFilename_, mutex_, fs, arg, pre, content,
                   lines, nops, lastLoaded, lastPath>>

\* ---------------------------------------------------------------- setValue
\* Mutant of SetValue: insert() in place of operator[], which leaves the
\* value of a key that is already there.
SetValueInsertOnly(t) ==
    /\ pc[t] = "sv_put"
    /\ settings_' = IF arg[t].key \in DOMAIN settings_
                    THEN settings_
                    ELSE Put(settings_, arg[t].key, arg[t].value)
    /\ mutex_' = NoThread
    /\ Return(t, Ok(<<>>))
    /\ UNCHANGED <<currentFilename_, fs, arg, pre, content, lines, nops,
                   lastLoaded, lastPath>>

SetValue(t) ==
    /\ pc[t] = "sv_put"
    /\ settings_' = Put(settings_, arg[t].key, arg[t].value)
    /\ mutex_' = NoThread
    /\ Return(t, Ok(<<>>))
    /\ UNCHANGED <<currentFilename_, fs, arg, pre, content, lines, nops,
                   lastLoaded, lastPath>>

\* ---------------------------------------------------------------- saveSettings
\* Mutant of SaveCheck: the exception leaves with the mutex still locked,
\* as with lock()/unlock() calls in place of the lock_guard.
SaveCheckKeepsLock(t) ==
    /\ pc[t] = "ss_check"
    /\ IF currentFilename_ = ""
       THEN /\ Return(t, Raise("StateError"))
            /\ UNCHANGED <<arg, mutex_>>
       ELSE /\ pc' = [pc EXCEPT ![t] = "sa_lock"]
            /\ arg' = [arg EXCEPT ![t].filename = currentFilename_]
            /\ UNCHANGED <<ret, mutex_>>
    /\ UNCHANGED <<settings_, currentFilename_, fs, pre, content, lines, nops,
                   lastLoaded, lastPath>>

\* if (currentFilename_.empty()) throw; else saveSettingsAs(currentFilename_)
SaveCheck(t) ==
    /\ pc[t] = "ss_check"
    /\ IF currentFilename_ = ""
       THEN /\ Return(t, Raise("StateError"))
            /\ mutex_' = NoThread
            /\ UNCHANGED arg
       ELSE /\ pc' = [pc EXCEPT ![t] = "sa_lock"]
            /\ arg' = [arg EXCEPT ![t].filename = currentFilename_]
            /\ UNCHANGED <<ret, mutex_>>
    /\ UNCHANGED <<settings_, currentFilename_, fs, pre, content, lines, nops,
                   lastLoaded, lastPath>>

\* saveSettingsAs locks mutex_ while saveSettings, its caller, owns it.
\* Locking a std::mutex the thread already owns is undefined; the builds
\* differ: the thread waits for itself for ever, or lock() throws
\* std::system_error, or (a mutex built on a recursive primitive) the lock
\* is granted a second time.
RelockOutcomes == {"deadlock", "throw", "granted"}

SaveRelock(t) ==
    /\ pc[t] = "sa_lock"
    /\ mutex_ = t
    /\ \E o \in RelockOutcomes :
         \/ /\ o = "deadlock"
            /\ pc' = [pc EXCEPT ![t] = "sa_self_wait"]
            /\ UNCHANGED <<ret, mutex_>>
         \/ /\ o = "throw"
            /\ Return(t, Raise("SystemError"))
            /\ mutex_' = NoThread
         \/ /\ o = "granted"
            /\ pc' = [pc EXCEPT ![t] = "sa_open"]
            /\ UNCHANGED <<ret, mutex_>>
    /\ UNCHANGED <<settings_, currentFilename_, fs, arg, pre, content, lines,
                   nops, lastLoaded, lastPath>>

\* ---------------------------------------------------------------- saveSettingsAs
\* Mutant of SaveAsOpen: the filename becomes the current one as soon as
\* the file is open.
SaveAsOpenRecordsPath(t) ==
    /\ pc[t] = "sa_open"
    /\ IF Openable(arg[t].filename)
       THEN /\ fs' = [fs EXCEPT ![arg[t].filename] = File(<<>>)]
            /\ pc' = [pc EXCEPT ![t] = "sa_write"]
            /\ currentFilename_' = arg[t].filename
            /\ UNCHANGED <<ret, mutex_>>
       ELSE /\ Return(t, Raise("IOError"))
            /\ mutex_' = NoThread
            /\ UNCHANGED <<fs, currentFilename_>>
    /\ UNCHANGED <<settings_, arg, pre, content, lines, nops, lastLoaded,
                   lastPath>>

\* std::ofstream file(filename) truncates; if (!file.is_open()) throw
SaveAsOpen(t) ==
    /\ pc[t] = "sa_open"
    /\ IF Openable(arg[t].filename)
       THEN /\ fs' = [fs EXCEPT ![arg[t].filename] = File(<<>>)]
            /\ pc' = [pc EXCEPT ![t] = "sa_write"]
            /\ UNCHANGED <<ret, mutex_>>
       ELSE /\ Return(t, Raise("IOError"))
            /\ mutex_' = NoThread
            /\ UNCHANGED fs
    /\ UNCHANGED <<settings_, currentFilename_, arg, pre, content, lines, nops,
                   lastLoaded, lastPath>>

\* Mutant of SaveAsWrite: a successful saveSettingsAs records its filename
\* as the current one.
SaveAsWriteRecordsPath(t) ==
    /\ pc[t] = "sa_write"
    /\ \E data \in Serializations(settings_) :
         fs' = [fs EXCEPT ![arg[t].filename] = File(data)]
    /\ mutex_' = NoThread
    /\ Return(t, Ok(<<>>))
    /\ currentFilename_' = arg[t].filename
    /\ lastPath' = arg[t].filename
    /\ UNCHANGED <<settings_, arg, pre, content, lines, nops, lastLoaded>>

\* Mutant of SaveAsWrite: the entries are moved out of the mapping as they
\* are written.
SaveAsWriteDrains(t) ==
    /\ pc[t] = "sa_write"
    /\ \E data \in Serializations(settings_) :
         fs' = [fs EXCEPT ![arg[t].filename] = File(data)]
    /\ settings_' = EmptyMap
    /\ mutex_' = NoThread
    /\ Return(t, Ok(<<>>))
    /\ lastPath' = arg[t].filename
    /\ UNCHANGED <<currentFilename_, arg, pre, content, lines, nops,
                   lastLoaded>>

\* The for loop and file.close(): the buffered entries reach the file, and
\* the lock_guards of saveSettingsAs and of a calling saveSettings end.
SaveAsWrite(t) ==
    /\ pc[t] = "sa_write"
    /\ \E data \in Serializations(settings_) :
         fs' = [fs EXCEPT ![arg[t].filename] = File(data)]
    /\ mutex_' = NoThread
    /\ Return(t, Ok(<<>>))
    /\ lastPath' = arg[t].filename
    /\ UNCHANGED <<settings_, currentFilename_, arg, pre, content, lines, nops,
                   lastLoaded>>

\* ---------------------------------------------------------------- system
\* A thread invokes one of the public operations.
Call(t) ==
    \/ CallCreateFileIfNotExists(t)
    \/ CallLoadSettings(t)
    \/ CallGetValue(t)
    \/ CallSetValue(t)
    \/ CallSaveSettings(t)
    \/ CallSaveSettingsAs(t)

\* A thread takes the next step of the operation it is in.
Step(t) ==
        \/ LockGuard(t)
        \/ CreateFileExists(t)
        \/ CreateFileOpen(t)
        \/ LoadOpen(t)
        \/ LoadRead(t)
        \/ LoadLine(t)
        \/ LoadDone(t)
        \/ GetValue(t)
        \/ SetValue(t)
        \/ SaveCheck(t)
        \/ SaveRelock(t)
        \/ SaveAsOpen(t)
        \/ SaveAsWrite(t)

Next == \E t \in Threads : Call(t) \/ Step(t)

Spec == Init /\ [][Next]_vars

\* One thread that uses the typed accessors, on what it has set or loaded.
TypedNext ==
    \/ CallLoadSettings("t1")
    \/ CallGetValue("t1")
    \/ CallGetValueAsInt("t1")
    \/ CallGetValueAsBool("t1")
    \/ CallSetValueAsInt("t1")
    \/ CallSetValueAsBool("t1")
    \/ CallSetValueText("t1")
    \/ LockGuard("t1")
    \/ LoadOpen("t1")
    \/ LoadRead("t1")
    \/ LoadLine("t1")
    \/ LoadDone("t1")
    \/ GetValue("t1")
    \/ SetValue("t1")
    \/ ConvertInt("t1")
    \/ ConvertBool("t1")

TypedSpec == Init /\ [][TypedNext]_vars

\* ---------------------------------------------------------------- persistence
\* Mappings a process has built with setValue before it saves them: every
\* mapping of some of these keys (the empty key among them) to these
\* values (the empty value among them).
PersistKeys == {<<>>, <<"a">>, <<"b">>}
PersistValues == {<<>>, <<"1">>, <<"2">>}
PersistMaps ==
    UNION { [D -> PersistValues] : D \in SUBSET PersistKeys }

PersistInit ==
    /\ settings_ \in PersistMaps
    /\ currentFilename_ = ""
    /\ mutex_ = NoThread
    /\ fs = [f \in Paths |-> NoFile]
    /\ pc = [t \in Threads |-> "idle"]
    /\ arg = [t \in Threads |-> NoArg]
    /\ pre = [t \in Threads |-> EmptyMap]
    /\ content = [t \in Threads |-> <<>>]
    /\ lines = [t \in Threads |-> <<>>]
    /\ ret = [t \in Threads |-> NoRet]
    /\ nops = 0
    /\ lastLoaded = ""
    /\ lastPath = ""

\* The process ends and a new one starts: the singleton is constructed
\* again, with an empty mapping and no current file; the files stay.
Restart ==
    /\ \A t \in Threads : pc[t] = "idle"
    /\ settings_ # EmptyMap \/ currentFilename_ # ""
    /\ settings_' = EmptyMap
    /\ currentFilename_' = ""
    /\ lastLoaded' = ""
    /\ lastPath' = ""
    /\ UNCHANGED <<mutex_, fs, pc, arg, pre, content, lines, ret, nops>>

\* One thread saves the mapping and loads files, in one process or in the
\* next.
PersistNext ==
    \/ CallSaveSettingsAs("t1")
    \/ CallLoadSettings("t1")
    \/ LockGuard("t1")
    \/ SaveAsOpen("t1")
    \/ SaveAsWrite("t1")
    \/ LoadOpen("t1")
    \/ LoadRead("t1")
    \/ LoadLine("t1")
    \/ LoadDone("t1")
    \/ Restart

PersistSpec == PersistInit /\ [][PersistNext]_vars

\* ---------------------------------------------------------------- the file format, as documented
\* A line is well formed when it holds a '=' and text follows the first '='.
HasEq(line) == \E i \in 1..Len(line) : line[i] = EQ
EqAt(line) ==
    CHOOSE i \in 1..Len(line) :
        line[i] = EQ /\ \A j \in 1..(i - 1) : line[j] # EQ
KeyOf(line) == SubSeq(line, 1, EqAt(line) - 1)
ValueOf(line) == SubSeq(line, EqAt(line) + 1, Len(line))
WellFormed(line) == HasEq(line) /\ ValueOf(line) # <<>>

\* The positions of the well-formed lines of ls whose key is k.
LinesFor(ls, k) ==
    { i \in 1..Len(ls) : WellFormed(ls[i]) /\ KeyOf(ls[i]) = k }
LastOf(S) == CHOOSE i \in S : \A j \in S : j <= i

\* The pairs a file's lines denote: for each key, its last well-formed line.
ParsedPairs(ls) ==
    [k \in { KeyOf(ls[i]) : i \in { j \in 1..Len(ls) : WellFormed(ls[j]) } }
        |-> ValueOf(ls[LastOf(LinesFor(ls, k))])]

\* Neither '=' nor a newline in any key or value of m.
PlainText(s) == \A i \in 1..Len(s) : s[i] \notin {EQ, NL}
PlainMap(m) == \A k \in DOMAIN m : PlainText(k) /\ PlainText(m[k])

\* Thread t has applied every line of the file it loads and still holds
\* the lock: the state loadSettings returns in.
LoadComplete(t) == pc[t] = "ld_loop" /\ lines[t] = <<>>

\* Thread t is inside the file-access or mapping-access part of an operation.
Inside(t) ==
    pc[t] \in {"cf_exists", "cf_create", "ld_open", "ld_read", "ld_loop",
               "gv_find", "sv_put", "ss_check", "sa_open", "sa_write"}

\* Thread t cannot take a step: it waits for a mutex that is owned (by
\* another thread, or for ever by itself).
Blocked(t) ==
    \/ pc[t] = "sa_self_wait"
    \/ /\ pc[t] \in DOMAIN AfterLock
       /\ mutex_ # NoThread
       /\ ~(pc[t] = "sa_lock" /\ mutex_ = t)

\* ---------------------------------------------------------------- claims

\* C1: a successful load replaces the whole mapping: when loadSettings
\* returns, the mapping holds exactly the pairs parsed from the file, so a
\* key that was there before and is in no well-formed line is gone.
C1_LoadReplacesMapping ==
    \A t \in Threads :
        LoadComplete(t) => settings_ = ParsedPairs(FileLines(content[t]))

\* C2: once a load has succeeded, save() completes, and the current file
\* then holds exactly one line key=value per entry of the mapping.  As a
\* property of every step: a save() that found a current path never comes
\* to wait for the lock it holds itself, and when it ends it has returned
\* normally and the file holds exactly the lines of the mapping.
C2_SaveCompletesAndWrites ==
    [][\A t \in Threads :
         (arg'[t].op = "saveSettings" /\ arg'[t].filename # "")
            => /\ pc'[t] # "sa_self_wait"
               /\ (pc[t] # "idle" /\ pc'[t] = "idle")
                    => (/\ ret'[t].kind = "ok"
                        /\ fs'[arg'[t].filename].exists
                        /\ fs'[arg'[t].filename].data
                             \in Serializations(settings_'))]_vars

\* C3: every invocation of a public operation eventually returns or raises
\* (no invocation waits for the lock for ever), and the lock is free
\* whenever no operation is in progress.  As a property of every state:
\* while some operation is in progress, some thread that is inside an
\* operation is not blocked, so that it can take its next step.
C3_EveryOperationEnds ==
    /\ (\E t \in Threads : pc[t] # "idle")
            => (\E t \in Threads : pc[t] # "idle" /\ ~Blocked(t))
    /\ (\A t \in Threads : pc[t] = "idle") => mutex_ = NoThread

\* C4: a load whose file cannot be opened raises IOError and leaves the
\* mapping and the current file path as they were.
C4_FailedLoadKeepsState ==
    [][\A t \in Threads :
         (pc[t] = "ld_open" /\ ~fs[arg[t].filename].exists /\ pc'[t] # pc[t])
            => /\ pc'[t] = "idle"
               /\ ret'[t].kind = "IOError"
               /\ settings_' = settings_
               /\ settings_' = pre[t]
               /\ currentFilename_' = currentFilename_
               /\ mutex_' = NoThread]_vars

\* C4 witness: a load has failed after an earlier load had filled the
\* mapping and set the current path.
C4_Witness ==
    \E t \in Threads :
        /\ pc[t] = "idle"
        /\ arg[t].op = "loadSettings"
        /\ ret[t].kind = "IOError"
        /\ settings_ # EmptyMap
        /\ currentFilename_ = "p"

\* C5: save() with no current file path raises StateError, gives the lock
\* back, writes no file and changes no in-memory state.
C5_SaveWithoutPath ==
    [][\A t \in Threads :
         (pc[t] \in {"ss_lock", "ss_check"} /\ currentFilename_ = ""
          /\ pc'[t] # pc[t])
            => /\ fs' = fs
               /\ settings_' = settings_
               /\ currentFilename_' = ""
               /\ (pc[t] = "ss_check")
                    => (/\ pc'[t] = "idle"
                        /\ ret'[t].kind = "StateError"
                        /\ mutex_' = NoThread)]_vars

\* C5 witness: save() has raised StateError on a store that holds entries.
C5_Witness ==
    \E t \in Threads :
        /\ pc[t] = "idle"
        /\ arg[t].op = "saveSettings"
        /\ ret[t].kind = "StateError"
        /\ settings_ # EmptyMap
        /\ mutex_ = NoThread

\* C6: after a successful load every key of a well-formed line maps to the
\* text after the first '=' of the last well-formed line with that key;
\* lines without '=' or without text after the first '=' add or change no
\* entry, and a file that could be read never makes the load fail.
C6_LoadParsesLines ==
    \A t \in Threads :
        /\ LoadComplete(t) =>
             LET ls == FileLines(content[t])
                 parsed == ParsedPairs(ls)
             IN  /\ \A k \in DOMAIN parsed :
                        k \in DOMAIN settings_ /\ settings_[k] = parsed[k]
                 /\ \A k \in (DOMAIN settings_) \ (DOMAIN parsed) :
                        k \in DOMAIN pre[t] /\ settings_[k] = pre[t][k]
        /\ (pc[t] = "idle" /\ arg[t].op = "loadSettings" /\ content[t] # <<>>)
             => ret[t].kind = "ok"

\* C6 witness: the file with a repeated key, a line without '=', a value
\* holding '=', an empty line and a line ending in '=' has been loaded.
C6_Witness ==
    \E t \in Threads :
        /\ LoadComplete(t)
        /\ Len(FileLines(content[t])) = 6
        /\ settings_ = (<<"a">> :> <<"2">>) @@ (<<"b">> :> <<"2", EQ, "3">>)

\* C7: saveAs(p) immediately followed by load(p) leaves a mapping without
\* '=' and newline in its keys and values as it was.
C7_RoundTrip ==
    \A t \in Threads :
        (LoadComplete(t) /\ PlainMap(pre[t])
         /\ content[t] \in Serializations(pre[t]))
            => settings_ = pre[t]

\* C7 witness: a load has read back the file a saveAs wrote from the
\* current, non-empty mapping.
C7_Witness ==
    \E t \in Threads :
        /\ LoadComplete(t)
        /\ PlainMap(pre[t])
        /\ content[t] \in Serializations(pre[t])
        /\ \E k \in DOMAIN pre[t] : pre[t][k] # <<>>

\* C8 as stated: the current file path is the path of the most recent
\* successful load or saveAs, and save() targets it.
C8_PathIsLastLoadOrSaveAs ==
    /\ currentFilename_ = lastPath
    /\ \A t \in Threads :
         (arg[t].op = "saveSettings" /\ pc[t] \in {"sa_lock", "sa_open", "sa_write"})
            => arg[t].filename = lastPath

\* C8 amended: the current file path is the path of the most recent
\* successful load (empty when no load has succeeded; saveAs never sets
\* it), and save() targets it.
C8_PathIsLastLoad ==
    /\ currentFilename_ = lastLoaded
    /\ \A t \in Threads :
         (arg[t].op = "saveSettings" /\ pc[t] \in {"sa_lock", "sa_open", "sa_write"})
            => arg[t].filename = lastLoaded

\* C8 witness: a saveAs to another file has succeeded after a load, and a
\* save() is about to write: its target is the loaded file.
C8_Witness ==
    \E t \in Threads :
        /\ lastLoaded = "p"
        /\ lastPath = "q"
        /\ arg[t].op = "saveSettings"
        /\ pc[t] = "sa_open"

\* C9: saveAs leaves the current file path unchanged, whether it succeeds
\* or fails.
C9_SaveAsKeepsPath ==
    [][\A t \in Threads :
         (arg'[t].op = "saveSettingsAs" /\ pc'[t] # pc[t])
            => currentFilename_' = currentFilename_]_vars

\* C9 witness: after load(p), saveAs(q) has succeeded and the path is p.
C9_Witness ==
    \E t \in Threads :
        /\ pc[t] = "idle"
        /\ arg[t].op = "saveSettingsAs"
        /\ arg[t].filename = "q"
        /\ ret[t].kind = "ok"
        /\ fs["q"].exists
        /\ currentFilename_ = "p"

\* C10: every public operation holds the lock for its whole duration, so
\* no two threads are at once inside the file-access or mapping-access
\* part of an operation.
C10_OperationsSerialized ==
    /\ \A t \in Threads : Inside(t) => mutex_ = t
    /\ \A t1, t2 \in Threads : (Inside(t1) /\ Inside(t2)) => t1 = t2

\* A load by thread t is under way: its file is open and not all of its
\* lines are applied, or it has not yet returned.
Loading(t) == pc[t] \in {"ld_open", "ld_read", "ld_loop"}

\* Thread t reads the mapping: the body of getValue (getValueAs calls it)
\* or of saveSettingsAs.
Observing(t) == pc[t] \in {"gv_find", "sa_open", "sa_write"}

\* C11: while one thread executes load, no get, getAs or saveAs of another
\* thread reads the mapping, so none sees it with only some lines applied.
C11_LoadIsAtomic ==
    \A t1, t2 \in Threads :
        (t1 # t2 /\ Loading(t1)) => ~Observing(t2)

\* C11 witness: a load has applied some of its lines and not the others
\* while another thread waits to read the mapping.
C11_Witness ==
    \E t1, t2 \in Threads :
        /\ t1 # t2
        /\ pc[t1] = "ld_loop"
        /\ lines[t1] # <<>>
        /\ settings_ # pre[t1]
        /\ pc[t2] \in {"gv_lock", "sa_lock"}

\* C12: set(k, v) never fails and overwrites unconditionally, and get(k)
\* returns what the most recent set(k, .) or load gave k.  As a property of
\* every step: the step of set makes k map to v and changes no other
\* key; the value of a key changes only by a set of that key or by a line
\* of a load with that key; get returns the value k maps to.
C12_SetThenGet ==
    [][/\ \A t \in Threads :
            (pc[t] = "sv_put" /\ pc'[t] # pc[t])
                => /\ ret'[t].kind = "ok"
                   /\ arg[t].key \in DOMAIN settings_'
                   /\ settings_'[arg[t].key] = arg[t].value
       /\ \A k \in DOMAIN settings_' :
            (k \notin DOMAIN settings_ \/ settings_'[k] # settings_[k])
                => \E t \in Threads :
                      /\ pc'[t] # pc[t] \/ lines'[t] # lines[t]
                      /\ \/ pc[t] = "sv_put" /\ arg[t].key = k
                                /\ settings_'[k] = arg[t].value
                         \/ /\ pc[t] = "ld_loop" /\ lines[t] # <<>>
                            /\ WellFormed(Head(lines[t]))
                            /\ KeyOf(Head(lines[t])) = k
                            /\ settings_'[k] = ValueOf(Head(lines[t]))
       /\ DOMAIN settings_ \subseteq DOMAIN settings_'
       /\ \A t \in Threads :
            (pc[t] = "gv_find" /\ pc'[t] # pc[t]
             /\ arg[t].key \in DOMAIN settings_)
                => ret'[t] = Ok(settings_[arg[t].key])]_vars

\* C12 witness: a set has replaced the different value its key had.
C12_Witness ==
    \E t \in Threads :
        /\ pc[t] = "idle"
        /\ arg[t].op = "setValue"
        /\ ret[t].kind = "ok"
        /\ arg[t].key \in DOMAIN pre[t]
        /\ pre[t][arg[t].key] # arg[t].value
        /\ settings_[arg[t].key] = arg[t].value

\* C14: save and saveAs never change the mapping, whether the write
\* succeeds or the file cannot be opened.
C14_SaveKeepsMapping ==
    [][\A t \in Threads :
         (arg'[t].op \in {"saveSettings", "saveSettingsAs"} /\ pc'[t] # pc[t])
            => settings_' = settings_]_vars

\* C14 witness: a saveAs has failed with IOError on a store with entries.
C14_Witness ==
    \E t \in Threads :
        /\ pc[t] = "idle"
        /\ arg[t].op = "saveSettingsAs"
        /\ ret[t].kind = "IOError"
        /\ settings_ # EmptyMap
        /\ settings_ = pre[t]

\* C18: ensureFileExists never changes the content of a file that exists,
\* whatever the other threads do: no step of it changes an existing file.
C18_EnsureKeepsExistingFile ==
    [][\A t \in Threads :
         (arg[t].op = "createFileIfNotExists" /\ pc'[t] # pc[t]
          /\ fs[arg[t].filename].exists)
            => fs'[arg[t].filename] = fs[arg[t].filename]]_vars

\* ---------------------------------------------------------------- typed values, as documented
GetOps == {"getValue", "getValueAs<int>", "getValueAs<bool>"}

AllDigits(s) == \A i \in 1..Len(s) : IsDigit(s[i])

\* s is, in its entirety, an optional sign and one or more digits.
IsWholeInteger(s) ==
    /\ s # <<>>
    /\ LET body == IF s[1] \in {"-", "+"} THEN Tail(s) ELSE s
       IN  body # <<>> /\ AllDigits(body)

\* The number a run of digits denotes, negated.
RECURSIVE NegValue(_)
NegValue(ds) ==
    IF ds = <<>> THEN 0
    ELSE (NegValue(SubSeq(ds, 1, Len(ds) - 1)) * 10)
         - DigitValue(ds[Len(ds)])

\* s is the base-10 decimal text of n: a '-' for a negative n, then the
\* digits of its magnitude without leading zeros.
IsDecimalTextOf(s, n) ==
    LET ds == IF n < 0 /\ s # <<>> /\ s[1] = "-" THEN Tail(s) ELSE s
    IN  /\ (n < 0) <=> (s # <<>> /\ s[1] = "-")
        /\ ds # <<>>
        /\ Len(ds) <= 10
        /\ AllDigits(ds)
        /\ Len(ds) > 1 => ds[1] # "0"
        /\ NegValue(ds) = (IF n < 0 THEN n ELSE -n)

\* C13: get and getAs on an absent key raise NotFoundError, and a failing
\* get or getAs leaves the mapping and the current file path unchanged and
\* does not create the key (no step of get or getAs changes either).
C13_FailedGetKeepsState ==
    [][\A t \in Threads :
         (arg'[t].op \in GetOps /\ pc'[t] # pc[t])
            => /\ settings_' = settings_
               /\ currentFilename_' = currentFilename_
               /\ (pc[t] = "gv_find" /\ arg[t].key \notin DOMAIN settings_)
                    => (/\ pc'[t] = "idle"
                        /\ ret'[t].kind = "NotFoundError"
                        /\ arg[t].key \notin DOMAIN settings_')]_vars

\* C13 witness: getAs<bool> has raised NotFoundError for an absent key on
\* a store that holds another key and has a current file.
C13_Witness ==
    \E t \in Threads :
        /\ pc[t] = "idle"
        /\ arg[t].op = "getValueAs<bool>"
        /\ ret[t].kind = "NotFoundError"
        /\ arg[t].key \notin DOMAIN settings_
        /\ settings_ # EmptyMap
        /\ currentFilename_ = "p"

\* C15: getAs<int> raises ConversionError whenever the stored string is
\* not in its entirety a valid base-10 integer, and returns an integer
\* only when the whole string is one.
C15_IntNeedsWholeString ==
    [][\A t \in Threads :
         (pc[t] = "ga_convert" /\ arg[t].op = "getValueAs<int>"
          /\ pc'[t] # pc[t])
            => /\ ~IsWholeInteger(ret[t].value)
                    => ret'[t].kind = "ConversionError"
               /\ ret'[t].kind = "ok" => IsWholeInteger(ret[t].value)]_vars

\* C16: getAs<bool> on a present key returns true exactly when the stored
\* string is "true" or "1", false for every other string, and never
\* raises; so setAs(k, b) stores a text that getAs<bool> reads as b.
C16_BoolReadsTrueOrOne ==
    [][\A t \in Threads :
         /\ (pc[t] = "ga_convert" /\ arg[t].op = "getValueAs<bool>"
             /\ pc'[t] # pc[t])
                => /\ pc'[t] = "idle"
                   /\ ret'[t].kind = "ok"
                   /\ ret'[t].value
                        = (ret[t].value \in {<<"t", "r", "u", "e">>, <<"1">>})
         /\ (pc[t] = "sv_put" /\ arg[t].op = "setValueAs<bool>"
             /\ pc'[t] # pc[t])
                => (settings_'[arg[t].key] \in {<<"t", "r", "u", "e">>, <<"1">>})
                        = arg[t].typed]_vars

\* C16 witness: getAs<bool> has returned false for the stored text "yes".
C16_Witness ==
    \E t \in Threads :
        /\ pc[t] = "idle"
        /\ arg[t].op = "getValueAs<bool>"
        /\ ret[t].kind = "ok"
        /\ ret[t].value = FALSE
        /\ arg[t].key \in DOMAIN settings_
        /\ settings_[arg[t].key] = <<"y", "e", "s">>

\* C17: for every int n, the minimum and the maximum included,
\* setAs<int>(k, n) stores the base-10 decimal text of n (which get
\* returns), and getAs<int> returns n from the decimal text of n.
C17_IntRoundTrip ==
    [][\A t \in Threads :
         /\ (pc[t] = "sv_put" /\ arg[t].op = "setValueAs<int>"
             /\ pc'[t] # pc[t])
                => IsDecimalTextOf(settings_'[arg[t].key], arg[t].typed)
         /\ (pc[t] = "ga_convert" /\ arg[t].op = "getValueAs<int>"
             /\ pc'[t] # pc[t])
                => \A n \in IntInputs :
                      IsDecimalTextOf(ret[t].value, n) => ret'[t] = Ok(n)]_vars

\* C17 witness: getAs<int> has returned the minimum int from the text
\* setAs<int> stored for it.
C17_Witness ==
    \E t \in Threads :
        /\ pc[t] = "idle"
        /\ arg[t].op = "getValueAs<int>"
        /\ ret[t].kind = "ok"
        /\ ret[t].value = MinInt
        /\ settings_[arg[t].key] = IntToString(MinInt)

\* The entries of m whose value is not empty.
NonEmptyEntries(m) ==
    [k \in { x \in DOMAIN m : m[x] # <<>> } |-> m[k]]

\* C19: a load, into a store whose mapping is empty, of the file saveAs
\* wrote from a mapping M without '=' and newline yields exactly the
\* entries of M with a non-empty value: an entry k -> "" is lost, an entry
\* with an empty key and a non-empty value is restored.
C19_EmptyValuesAreLost ==
    \A t \in Threads :
        (LoadComplete(t) /\ pre[t] = EmptyMap)
            => \A M \in PersistMaps :
                  (PlainMap(M) /\ content[t] \in Serializations(M))
                      => settings_ = NonEmptyEntries(M)

\* C19 witness: an empty store has loaded the file written from a mapping
\* with an entry whose value is empty and an entry whose key is empty.
C19_Witness ==
    \E t \in Threads :
        /\ LoadComplete(t)
        /\ pre[t] = EmptyMap
        /\ \E M \in PersistMaps :
              /\ content[t] \in Serializations(M)
              /\ \E k \in DOMAIN M : M[k] = <<>>
              /\ <<>> \in DOMAIN M /\ M[<<>>] # <<>>
              /\ settings_ = NonEmptyEntries(M)
              /\ <<>> \in DOMAIN settings_

====
